---- MODULE Spec2Model ----
(***************************************************************************)
(* Py86 (src/main.py): the VM control plane.  A VM object owns an         *)
(* in-memory configuration, a process handle (self.proc) and a control    *)
(* socket (self.qmp_sock).  start() builds the launch command, spawns the *)
(* hypervisor and starts a waiter thread and a connection thread;         *)
(* stop(), kill() and qmp_command() act on the handle and the socket.     *)
(*                                                                         *)
(* Time is counted in ticks of 0.25 time units.  The client socket        *)
(* follows the Linux TCP socket-layer state machine, since the retry loop *)
(* of _try_connect_qmp calls connect() again on the one socket it made.   *)
(***************************************************************************)
EXTENDS Integers, Sequences, FiniteSets, TLC

\* ---------------------------------------------------------------- bounds
MaxProcs == 2          \* hypervisor processes spawned in one behaviour
MaxObjs == 2           \* VM objects constructed in one behaviour
MaxPort == 1           \* loopback ports the OS hands out for the control port
MaxVncPort == 2        \* loopback ports the OS hands out for the VNC port
MaxCmds == 1           \* application commands written in one behaviour
MaxLines == 2          \* lines a process writes to one of its streams
MaxDisks == 2          \* DiskSpecs registered in one configuration
MaxEvents == 1          \* asynchronous events buffered unread on one connection

\* ------------------------------------------------------ program constants
QmpTimeout == 32       \* _try_connect_qmp(timeout=8): 8 units = 32 ticks
RetrySleep == 1        \* time.sleep(0.25)
SockTimeout == 4       \* s.settimeout(1.0)

Names == {"vm"}        \* directories of VMS_DIR at the beginning
NewNames == {"web01"}  \* names of VMs created later
AllNames == Names \cup NewNames
Procs == 1..MaxProcs   \* process ids; run r spawned process r
Objs == 1..MaxObjs
Ports == 1..MaxPort
VncPorts == 1..MaxVncPort
NoProc == 0            \* self.proc is None
NoSock == 0            \* self.qmp_sock is None
NoPort == 0            \* advanced.qmp_port absent
VncBase == 5900        \* -vnc 127.0.0.1:{vnc_port - 5900}
NoEmbed == 0           \* embed_window_id is None
Embeds == {NoEmbed, 7} \* window ids handed to build_qemu_cmd

VARIABLES
  stored,      \* stored[n]: the document in VMS_DIR/n/config.json
  files,       \* disk image files that exist
  nobj,        \* VM objects constructed so far
  objName,     \* objName[o]: self.name
  config,      \* config[o]: self.config
  proc,        \* proc[o]: self.proc (a process id or NoProc)
  qmp_sock,    \* qmp_sock[o]: self.qmp_sock (a socket id or NoSock)
  vms,         \* MainWindow.vms: name -> VM object
  nproc,       \* processes spawned so far
  procState,   \* procState[p]: "none", "running", "exited"
  procRc,      \* procRc[p]: exit code once exited
  procSig,     \* procSig[p]: signal requested: "none", "term", "kill"
  procPort,    \* procPort[p]: port of the -qmp token of its command line
  procOwner,   \* procOwner[p]: the VM object whose start() spawned p
  listening,   \* listening[p]: the hypervisor has its control port open
  waiter,      \* waiter[r]: the waitproc thread of run r
  conn,        \* conn[r]: the _try_connect_qmp thread of run r
  sock,        \* sock[r]: the socket s made by conn[r]
  ncmds,       \* application commands written so far
  reader,      \* reader[r][st]: the read_stream thread of run r on stream st
  written,     \* written[p][st]: the lines process p wrote to its stream st
  defaults,    \* the disks list and the advanced map of DEFAULT_CONFIG
  shares,      \* shares[o]: self.config holds DEFAULT_CONFIG's list and map
  qemu_cmd,    \* the vector the last call of build_qemu_cmd returned
  bundle,      \* the archive file export_bundle writes (its dest)
  isofile,     \* the file that iso_path names exists
  ret          \* how the last call of the VM interface ended

vars == <<stored, files, nobj, objName, config, proc, qmp_sock, vms, nproc,
          procState, procRc, procSig, procPort, procOwner, listening,
          waiter, conn, sock, ncmds, reader, written, defaults, shares, qemu_cmd,
          bundle, isofile, ret>>

storeVars == <<stored, files>>
objVars == <<nobj, objName, config, proc, qmp_sock, vms>>
procVars == <<nproc, procState, procRc, procSig, procPort, procOwner, listening>>
taskVars == <<reader, written>>
buildVars == <<defaults, shares, qemu_cmd>>
bundleVars == <<bundle, isofile>>

\* ------------------------------------------------------------ ConfigStore
DEFAULT_DISK_FORMAT == "raw"

\* the fields of DEFAULT_CONFIG that no operation of the model writes: every
\* configuration holds them with these values
Unedited ==
  [cpu_cores |-> 2, memory_mib |-> 4096, disk_gib |-> 32, efi |-> TRUE,
   boot_order |-> "cdrom,hd,menu", extra_args |-> <<>>,
   network_mode |-> "user (NAT)", enable_kvm |-> FALSE, display_embed |-> TRUE,
   nested_virt |-> FALSE]

\* now_iso(): the time of the running session; documents written before it
\* carry an earlier stamp
now_iso == 1
Earlier == 0

\* iso_path: None, or the path of the install medium
NoIso == "none"
IsoPaths == {"cd.iso"}

\* DEFAULT_CONFIG with the name and the creation stamp filled in, as
\* _load_or_init writes it
DEFAULT_CONFIG(n) ==
  [name |-> n, created |-> now_iso, disk_format |-> DEFAULT_DISK_FORMAT,
   graphics |-> "sdl", iso_path |-> NoIso, disks |-> defaults.disks,
   qmp_port |-> defaults.qmp_port, vnc_port |-> defaults.vnc_port]

\* the document of a VM that was created before the session began
Existing(n) == [DEFAULT_CONFIG(n) EXCEPT !.created = Earlier]

\* the store has no directory of that name
NoDoc == [name |-> "none"]

\* VMS_DIR has a directory of the name n
HasDir(n) == stored[n] # NoDoc

\* the directories of VMS_DIR
Dirs == {n \in AllNames : stored[n] # NoDoc}

\* DEFAULT_CONFIG["disks"] and DEFAULT_CONFIG["advanced"] as the module defines
\* them; dict(DEFAULT_CONFIG) copies the references, not the list and the map
NoDefaults == [disks |-> <<>>, qmp_port |-> NoPort, vnc_port |-> NoPort]

\* find_qemu(): the binary is on the search path or not
find_qemu == BOOLEAN

\* no archive has been written; an archive is the sequence of its members
NoBundle == [made |-> FALSE, members |-> <<>>]

NoThread == [pc |-> "none", target |-> NoProc, rc |-> 0]

\* the two output pipes of a process, the lines it may write, and the
\* read_stream thread of one pipe: got is what it has passed to its callback
Streams == {"stdout", "stderr"}
Lines == {"a", "b"}
NoReader == [pc |-> "none", got |-> <<>>]
NewReader == [pc |-> "run", got |-> <<>>]
NoConn == [pc |-> "none", elapsed |-> 0, port |-> NoPort, out |-> "none"]
\* intime: the greeting was written while the retry window was still open
NoSocket == [st |-> "none", peer |-> NoProc, greeted |-> FALSE, intime |-> FALSE,
             inbox |-> <<>>, wire |-> <<>>, replied |-> 0, rst |-> FALSE]

Init ==
  /\ defaults = NoDefaults
  /\ shares = [o \in Objs |-> o = 1]
  /\ qemu_cmd = <<>>
  /\ stored = [n \in AllNames |-> IF n \in Names THEN Existing(n) ELSE NoDoc]
  /\ files = {}
  /\ nobj = 1
  /\ objName = [o \in Objs |-> "vm"]
  /\ config = [o \in Objs |-> Existing("vm")]
  /\ proc = [o \in Objs |-> NoProc]
  /\ qmp_sock = [o \in Objs |-> NoSock]
  /\ vms = [n \in Names |-> 1]
  /\ nproc = 0
  /\ procState = [p \in Procs |-> "none"]
  /\ procRc = [p \in Procs |-> 0]
  /\ procSig = [p \in Procs |-> "none"]
  /\ procPort = [p \in Procs |-> NoPort]
  /\ procOwner = [p \in Procs |-> 0]
  /\ listening = [p \in Procs |-> FALSE]
  /\ waiter = [r \in Procs |-> NoThread]
  /\ conn = [r \in Procs |-> NoConn]
  /\ sock = [r \in Procs |-> NoSocket]
  /\ ncmds = 0
  /\ reader = [r \in Procs |-> [st \in Streams |-> NoReader]]
  /\ written = [p \in Procs |-> [st \in Streams |-> <<>>]]
  /\ bundle = NoBundle
  /\ isofile = TRUE
  /\ ret = "none"

\* ------------------------------------------------------------ DiskManager
\* the list and the map of DEFAULT_CONFIG are one object in every
\* configuration made by dict(DEFAULT_CONFIG): what one holder appends or
\* sets, every other holder and DEFAULT_CONFIG itself have too
Shared(o, cfg) ==
  [o2 \in Objs |->
     IF o2 = o THEN cfg
     ELSE IF shares[o] /\ shares[o2]
          THEN [config[o2] EXCEPT !.disks = cfg.disks,
                                  !.qmp_port = cfg.qmp_port,
                                  !.vnc_port = cfg.vnc_port]
          ELSE config[o2]]

\* DEFAULT_CONFIG's list and map after object o's configuration became cfg
SharedDefaults(o, cfg) ==
  IF shares[o]
  THEN [disks |-> cfg.disks, qmp_port |-> cfg.qmp_port, vnc_port |-> cfg.vnc_port]
  ELSE defaults

\* self.disk_dir / name, as a string: VMS_DIR/<vm>/disks/<name>
DiskPath(o, name) == <<objName[o]>> \o name

\* the VM directory a path lies in
DirOf(path) == path[1]

\* ensure_primary_disk names the disk <vm>-disk0.<format>
PrimaryDiskName(o) == <<objName[o], "disk0", config[o].disk_format>>

\* what create_disk leaves at the target: qemu-img's image when the tool is
\* there and the format is not raw, else a sparse raw file of gib * 1024**3
DiskFile(o, name, gib, fmt, tool) ==
  [path |-> DiskPath(o, name), gib |-> gib,
   kind |-> IF tool /\ fmt # "raw" THEN fmt ELSE "raw"]

\* open(target, "wb") and qemu-img create both replace what was at the path
WriteFile(fs, f) == {g \in fs : g.path # f.path} \cup {f}

\* create_disk: the file is made, then the DiskSpec is appended (the save
\* follows in the caller's step)
create_disk(o, cfg, name, fmt) ==
  [cfg EXCEPT !.disks = Append(@, [path |-> DiskPath(o, name), format |-> fmt])]

\* ensure_primary_disk creating a disk whatever the list holds
ensure_primary_disk_always(o, cfg) ==
  create_disk(o, cfg, PrimaryDiskName(o), cfg.disk_format)

\* ensure_primary_disk: the configuration after it
ensure_primary_disk(o, cfg) ==
  IF cfg.disks = <<>>
  THEN create_disk(o, cfg, PrimaryDiskName(o), cfg.disk_format)
  ELSE cfg

\* what shutil.which("qemu-img") finds when ensure_primary_disk calls
\* create_disk: it is looked up only when the list is empty
ToolChoices(o) == IF config[o].disks = <<>> THEN BOOLEAN ELSE {FALSE}

\* the files after ensure_primary_disk
ensure_primary_disk_files(o, tool) ==
  IF config[o].disks = <<>>
  THEN WriteFile(files, DiskFile(o, PrimaryDiskName(o), Unedited.disk_gib,
                                 config[o].disk_format, tool))
  ELSE files

\* disk names, sizes and formats a caller passes to create_disk
DiskNames == {<<"data.img">>}
Gibs == {8}
Formats == {"raw", "qcow2"}

\* create_disk appending the DiskSpec and saving before the file is made
create_disk_call_early(o, name, gib, fmt) ==
  /\ o \in 1..nobj
  /\ Len(config[o].disks) < MaxDisks
  /\ \E tool \in BOOLEAN, made \in BOOLEAN :
       LET cfg == create_disk(o, config[o], name, fmt)
       IN /\ config' = Shared(o, cfg)
          /\ defaults' = SharedDefaults(o, cfg)
          /\ stored' = [stored EXCEPT ![objName[o]] = cfg]
          /\ files' = IF made THEN WriteFile(files, DiskFile(o, name, gib, fmt, tool))
                      ELSE files
          /\ ret' = IF made THEN "ok" ELSE "DiskError"
  /\ UNCHANGED <<bundleVars, nobj, objName, proc, qmp_sock, vms, shares, qemu_cmd,
                 taskVars, procVars, waiter, conn, sock, ncmds>>

\* create_disk(name, gib, fmt) called on object o: shutil.which finds
\* qemu-img or not (tool); subprocess.run(check=True) or open() raises (it
\* does when the VM's directory has been deleted), and nothing after it runs,
\* or the file is made, the DiskSpec appended and the configuration saved
create_disk_call(o, name, gib, fmt) ==
  /\ o \in 1..nobj
  /\ Len(config[o].disks) < MaxDisks
  /\ \/ /\ ret' = "DiskError"
        /\ UNCHANGED <<bundleVars, storeVars, taskVars, buildVars, objVars, procVars, waiter,
                       conn, sock, ncmds>>
     \/ /\ HasDir(objName[o])
        /\ \E tool \in BOOLEAN :
             LET cfg == create_disk(o, config[o], name, fmt)
             IN /\ config' = Shared(o, cfg)
                /\ defaults' = SharedDefaults(o, cfg)
                /\ stored' = [stored EXCEPT ![objName[o]] = cfg]
                /\ files' = WriteFile(files, DiskFile(o, name, gib, fmt, tool))
                /\ ret' = "ok"
        /\ UNCHANGED <<bundleVars, nobj, objName, proc, qmp_sock, vms, shares, qemu_cmd,
                       taskVars, procVars, waiter, conn, sock, ncmds>>

\* ensure_primary_disk() appending the DiskSpec without saving it
ensure_primary_disk_call_unsaved(o) ==
  /\ o \in 1..nobj
  /\ config[o].disks = <<>> => HasDir(objName[o])
  /\ \E tool \in ToolChoices(o) :
       LET cfg == ensure_primary_disk(o, config[o])
       IN /\ config' = Shared(o, cfg)
          /\ defaults' = SharedDefaults(o, cfg)
          /\ files' = ensure_primary_disk_files(o, tool)
          /\ ret' = "ok"
  /\ UNCHANGED <<bundleVars, stored, nobj, objName, proc, qmp_sock, vms, shares,
                 qemu_cmd, taskVars, procVars, waiter, conn, sock, ncmds>>

\* ensure_primary_disk() called on object o
ensure_primary_disk_call(o) ==
  /\ o \in 1..nobj
  /\ \/ /\ config[o].disks = <<>>
        /\ ret' = "DiskError"
        /\ UNCHANGED <<bundleVars, storeVars, taskVars, buildVars, objVars, procVars, waiter,
                       conn, sock, ncmds>>
     \/ /\ config[o].disks = <<>> => HasDir(objName[o])
        /\ \E tool \in ToolChoices(o) :
             LET cfg == ensure_primary_disk(o, config[o])
             IN /\ config' = Shared(o, cfg)
                /\ defaults' = SharedDefaults(o, cfg)
                /\ stored' = IF cfg = config[o] THEN stored
                             ELSE [stored EXCEPT ![objName[o]] = cfg]
                /\ files' = ensure_primary_disk_files(o, tool)
                /\ ret' = "ok"
        /\ UNCHANGED <<bundleVars, nobj, objName, proc, qmp_sock, vms, shares, qemu_cmd,
                       taskVars, procVars, waiter, conn, sock, ncmds>>

\* ---------------------------------------------------------- CommandBuilder
\* ports the OS may return for bind(("127.0.0.1", 0)): not bound right now
FreePorts == Ports \ {procPort[p] : p \in {q \in Procs : listening[q]}}

\* what _allocate_qmp_port gets when build_qemu_cmd calls it: it is called
\* only when the configuration has no control port
QmpPortChoices(o) == IF config[o].qmp_port = NoPort THEN FreePorts ELSE {NoPort}

\* what the bind for the VNC port gets: done only for vnc graphics with no
\* VNC port in the configuration
VncPortChoices(o) ==
  IF config[o].graphics = "vnc" /\ config[o].vnc_port = NoPort
  THEN VncPorts ELSE {NoPort}

\* the test inverted: poll() is not None
IsRunningInverted(o) == proc[o] # NoProc /\ procState[proc[o]] = "exited"

\* Popen.poll() is None: the process behind the handle has not exited
IsRunning(o) == proc[o] # NoProc /\ procState[proc[o]] = "running"

\* a builder that allocates the VNC port at every call
build_qemu_cmd_new_vnc(o, port, vport) ==
  LET c1 == ensure_primary_disk(o, config[o])
      c2 == IF c1.graphics = "vnc" THEN [c1 EXCEPT !.vnc_port = vport] ELSE c1
  IN IF c2.qmp_port = NoPort THEN [c2 EXCEPT !.qmp_port = port] ELSE c2

\* a builder that allocates both ports at every call
build_qemu_cmd_reallocating(o, port, vport) ==
  LET c1 == ensure_primary_disk(o, config[o])
      c2 == IF c1.graphics = "vnc" THEN [c1 EXCEPT !.vnc_port = vport] ELSE c1
  IN [c2 EXCEPT !.qmp_port = port]

\* build_qemu_cmd: the configuration after ensure_primary_disk and the
\* allocation of the VNC port and of the control port (vport and port are
\* what the two bind(("127.0.0.1", 0)) got)
build_qemu_cmd(o, port, vport) ==
  LET c1 == ensure_primary_disk(o, config[o])
      c2 == IF c1.graphics = "vnc" /\ c1.vnc_port = NoPort
            THEN [c1 EXCEPT !.vnc_port = vport] ELSE c1
  IN IF c2.qmp_port = NoPort THEN [c2 EXCEPT !.qmp_port = port] ELSE c2

\* one option of the vector with its argument: the words and the number the
\* argument is formatted from
Tok(opt, s, n) == [opt |-> opt, s |-> s, n |-> n]

\* "-drive", f"file={path},format={fmt},if=virtio"
DriveTok(d) == Tok("-drive", d.path \o <<d.format, "virtio">>, 0)

\* a builder that attaches the first disk only
DriveToksFirstOnly(cfg) == <<DriveTok(cfg.disks[1])>>

\* for d in cfg.get("disks", []): one -drive per DiskSpec, in list order
DriveToks(cfg) == [i \in 1..Len(cfg.disks) |-> DriveTok(cfg.disks[i])]

\* the graphics section of the vector
GraphicsToks(cfg, embed) ==
  IF cfg.graphics = "none" THEN <<Tok("-nographic", <<>>, 0)>>
  ELSE IF cfg.graphics = "sdl"
       THEN IF Unedited.display_embed /\ embed # NoEmbed
            THEN <<Tok("-display", <<"sdl", "window-id">>, embed)>>
            ELSE <<Tok("-display", <<"sdl">>, 0)>>
  ELSE IF cfg.graphics = "gtk" THEN <<Tok("-display", <<"gtk">>, 0)>>
  ELSE IF cfg.graphics = "vnc"
       THEN <<Tok("-vnc", <<"127.0.0.1">>, cfg.vnc_port - VncBase)>>
  ELSE <<Tok("-display", <<cfg.graphics>>, 0)>>

\* the network section of the vector
NetworkToks(cfg) ==
  IF Unedited.network_mode \in {"user (NAT)", "user"}
  THEN <<Tok("-netdev", <<"user", "net0">>, 0),
         Tok("-device", <<"virtio-net-pci", "net0">>, 0)>>
  ELSE IF Unedited.network_mode = "bridge"
  THEN <<Tok("-netdev", <<"tap", "net0", "tap0">>, 0),
         Tok("-device", <<"virtio-net-pci", "net0">>, 0)>>
  ELSE IF Unedited.network_mode = "host-only"
  THEN <<Tok("-netdev", <<"user", "net0", "restrict=on">>, 0),
         Tok("-device", <<"virtio-net-pci", "net0">>, 0)>>
  ELSE <<Tok("-net", <<"none">>, 0)>>

\* build_qemu_cmd: the vector it returns for the configuration cfg it ends
\* with, in the order the code appends
CommandVector(cfg, embed) ==
  <<Tok("qemu-system-x86_64", <<>>, 0), Tok("-machine", <<"q35">>, 0)>>
  \o (IF Unedited.enable_kvm THEN <<Tok("-enable-kvm", <<>>, 0)>> ELSE <<>>)
  \o (IF Unedited.nested_virt THEN <<Tok("-cpu", <<"host">>, 0)>> ELSE <<>>)
  \o <<Tok("-smp", <<>>, Unedited.cpu_cores), Tok("-m", <<>>, Unedited.memory_mib)>>
  \o DriveToks(cfg)
  \o (IF cfg.iso_path # NoIso THEN <<Tok("-cdrom", <<cfg.iso_path>>, 0)>> ELSE <<>>)
  \o <<Tok("-boot", <<Unedited.boot_order>>, 0)>>
  \o GraphicsToks(cfg, embed)
  \o NetworkToks(cfg)
  \o <<Tok("-qmp", <<"tcp", "127.0.0.1", "server", "nowait">>, cfg.qmp_port)>>
  \o [i \in 1..Len(Unedited.extra_args) |-> Tok(Unedited.extra_args[i], <<>>, 0)]
  \o <<Tok("-D", <<cfg.name, "logs", cfg.name>>, 0)>>

\* build_qemu_cmd looking for the binary after ensure_primary_disk
build_found_late(o, embed, found) ==
  /\ o \in 1..nobj
  /\ \E tool \in ToolChoices(o) :
       LET cfg == ensure_primary_disk(o, config[o])
       IN /\ config' = Shared(o, cfg)
          /\ defaults' = SharedDefaults(o, cfg)
          /\ stored' = IF cfg = config[o] THEN stored
                       ELSE [stored EXCEPT ![objName[o]] = cfg]
          /\ files' = ensure_primary_disk_files(o, tool)
          /\ ret' = IF found THEN "cmd" ELSE "HypervisorNotFound"
          /\ qemu_cmd' = IF found THEN CommandVector(cfg, embed) ELSE qemu_cmd
  /\ UNCHANGED <<bundleVars, nobj, objName, proc, qmp_sock, vms, shares, taskVars,
                 procVars, waiter, conn, sock, ncmds>>

\* build_qemu_cmd(embed_window_id) called on object o, find_qemu() having
\* found the binary or not; when it returns, it returns the vector ("cmd")
build_found(o, embed, found) ==
  /\ o \in 1..nobj
  /\ \/ /\ ~found
        /\ ret' = "HypervisorNotFound"
        /\ UNCHANGED <<bundleVars, storeVars, taskVars, buildVars, objVars, procVars, waiter,
                       conn, sock, ncmds>>
     \/ /\ found
        /\ config[o].disks = <<>>
        /\ ret' = "DiskError"
        /\ UNCHANGED <<bundleVars, storeVars, taskVars, buildVars, objVars, procVars, waiter,
                       conn, sock, ncmds>>
     \/ /\ found
        /\ ret' = "cmd"
        /\ \E tool \in ToolChoices(o), port \in QmpPortChoices(o), vport \in VncPortChoices(o) :
             LET cfg == build_qemu_cmd(o, port, vport)
             IN /\ config' = Shared(o, cfg)
                /\ defaults' = SharedDefaults(o, cfg)
                /\ stored' = IF cfg = config[o] THEN stored
                             ELSE [stored EXCEPT ![objName[o]] = cfg]
                /\ files' = ensure_primary_disk_files(o, tool)
                /\ qemu_cmd' = CommandVector(cfg, embed)
        /\ UNCHANGED <<bundleVars, nobj, objName, proc, qmp_sock, vms, shares, taskVars,
                       procVars, waiter, conn, sock, ncmds>>

\* build_qemu_cmd(embed_window_id) called on object o
build(o, embed) == \E found \in find_qemu : build_found(o, embed, found)

\* --------------------------------------------------------- ProcessSupervisor
\* start(): refuse a live handle, build the command, spawn the process and
\* start the reader, waitproc and _try_connect_qmp threads; find_qemu()
\* found the binary or not
start_found(o, found) ==
  /\ o \in 1..nobj
  /\ \/ /\ IsRunning(o)
        /\ ret' = "AlreadyRunning"
        /\ UNCHANGED <<bundleVars, storeVars, taskVars, buildVars, objVars, procVars, waiter, conn, sock, ncmds>>
     \/ /\ ~IsRunning(o)
        /\ ~found
        /\ ret' = "HypervisorNotFound"
        /\ UNCHANGED <<bundleVars, storeVars, taskVars, buildVars, objVars, procVars, waiter, conn, sock, ncmds>>
     \/ /\ ~IsRunning(o)
        /\ found
        /\ config[o].disks = <<>>
        /\ ret' = "DiskError"
        /\ UNCHANGED <<bundleVars, storeVars, taskVars, buildVars, objVars, procVars, waiter, conn, sock, ncmds>>
     \/ /\ ~IsRunning(o)
        /\ found
        /\ nproc < MaxProcs
        /\ \E tool \in ToolChoices(o), port \in QmpPortChoices(o), vport \in VncPortChoices(o) :
             LET cfg == build_qemu_cmd(o, port, vport)
                 p == nproc + 1
             IN /\ config' = Shared(o, cfg)
                /\ defaults' = SharedDefaults(o, cfg)
                /\ stored' = IF cfg = config[o] THEN stored
                              ELSE [stored EXCEPT ![objName[o]] = cfg]
                /\ files' = ensure_primary_disk_files(o, tool)
                /\ nproc' = p
                /\ proc' = [proc EXCEPT ![o] = p]
                /\ procState' = [procState EXCEPT ![p] = "running"]
                /\ procPort' = [procPort EXCEPT ![p] = cfg.qmp_port]
                /\ procOwner' = [procOwner EXCEPT ![p] = o]
                /\ waiter' = [waiter EXCEPT ![p] = [NoThread EXCEPT !.pc = "new"]]
                /\ conn' = [conn EXCEPT ![p] = [NoConn EXCEPT !.pc = "new"]]
                /\ reader' = [reader EXCEPT ![p] = [st \in Streams |-> NewReader]]
                /\ ret' = "ok"
        /\ UNCHANGED <<bundleVars, nobj, objName, qmp_sock, vms, procRc, procSig, listening,
                       sock, ncmds, written, shares, qemu_cmd>>

\* start() called on object o
start(o) == \E found \in find_qemu : start_found(o, found)

\* Popen.terminate() / Popen.kill(): send_signal does nothing once the
\* process has exited; SIGKILL overrides a pending SIGTERM
send_signal(p, sig) ==
  IF procState[p] = "running" /\ procSig[p] # "kill"
  THEN [procSig EXCEPT ![p] = sig] ELSE procSig

\* kill() calling terminate() instead of kill()
killByTerminate(o) ==
  /\ o \in 1..nobj
  /\ procSig' = IF proc[o] # NoProc THEN send_signal(proc[o], "term") ELSE procSig
  /\ ret' = "ok"
  /\ UNCHANGED <<bundleVars, storeVars, taskVars, buildVars, objVars, nproc, procState, procRc, procPort, procOwner,
                 listening, waiter, conn, sock, ncmds>>

\* kill(): SIGKILL to the handle, nothing else
kill(o) ==
  /\ o \in 1..nobj
  /\ IF proc[o] # NoProc
     THEN /\ procSig' = send_signal(proc[o], "kill")
          /\ ret' = "ok"
     ELSE /\ procSig' = procSig
          /\ ret' = "ok"
  /\ UNCHANGED <<bundleVars, storeVars, taskVars, buildVars, objVars, nproc, procState, procRc, procPort, procOwner,
                 listening, waiter, conn, sock, ncmds>>

\* waitproc, first half: evaluate self.proc (at the time the thread runs)
\* and block in its wait()
waitproc_wait(r) ==
  /\ waiter[r].pc = "new"
  /\ waiter' = [waiter EXCEPT ![r] = [NoThread EXCEPT !.pc = "wait", !.target = proc[procOwner[r]]]]
  /\ UNCHANGED <<bundleVars, storeVars, taskVars, buildVars, objVars, procVars, conn, sock, ncmds, ret>>

\* waitproc, second half: wait() returns the exit code, exit_cb(rc) is called
waitproc_exit_cb(r) ==
  /\ waiter[r].pc = "wait"
  /\ procState[waiter[r].target] = "exited"
  /\ waiter' = [waiter EXCEPT ![r].pc = "done",
                              ![r].rc = procRc[waiter[r].target]]
  /\ UNCHANGED <<bundleVars, storeVars, taskVars, buildVars, objVars, procVars, conn, sock, ncmds, ret>>

\* ------------------------------------------------------------ the hypervisor
\* exit codes: SIGKILL gives -9, SIGTERM -15, the process's own exit 0 or 1
ExitCodes(p) == IF procSig[p] = "kill" THEN {-9}
                ELSE IF procSig[p] = "term" THEN {-15} ELSE {0, 1}

\* the process terminates
hv_exit(p) ==
  /\ procState[p] = "running"
  /\ \E rc \in ExitCodes(p) : procRc' = [procRc EXCEPT ![p] = rc]
  /\ procState' = [procState EXCEPT ![p] = "exited"]
  /\ listening' = [listening EXCEPT ![p] = FALSE]
  /\ UNCHANGED <<bundleVars, storeVars, taskVars, buildVars, objVars, nproc, procSig, procPort, procOwner,
                 waiter, conn, sock, ncmds, ret>>

\* the process opens the port of its -qmp token (server,nowait); the bind fails
\* while another process holds the port
hv_listen(p) ==
  /\ procState[p] = "running"
  /\ ~listening[p]
  /\ \A q \in Procs : listening[q] => procPort[q] # procPort[p]
  /\ listening' = [listening EXCEPT ![p] = TRUE]
  /\ UNCHANGED <<bundleVars, storeVars, taskVars, buildVars, objVars, nproc, procState, procRc, procSig, procPort,
                 procOwner, waiter, conn, sock, ncmds, ret>>

\* ------------------------------------------------------- the control socket
\* a socket is open on the client side
IsOpen(s) == sock[s].st \in {"completing", "connected"}

\* the process at the other end has exited (its end is closed)
PeerGone(s) == sock[s].peer # NoProc /\ procState[sock[s].peer] = "exited"

\* what recv() can do: buffered bytes are returned at once; with none, a closed
\* peer gives b"" or a reset, a silent peer runs into the socket timeout
recv(s) == IF sock[s].inbox # <<>> THEN {"data"}
           ELSE IF PeerGone(s) THEN {"eof", "reset"} ELSE {"timeout"}

\* what sendall() can do: a closed peer may still take the bytes or break; once
\* the connection has been reset every send breaks
sendall(s) == IF ~PeerGone(s) THEN {"ok"}
              ELSE IF sock[s].rst THEN {"pipe"} ELSE {"ok", "pipe"}

\* the socket after a call with outcome out: a reset or a broken pipe was
\* reported by the peer's kernel, and bytes written to a closed peer draw one
Reset(s, out) == sock[s].rst \/ out \in {"reset", "pipe"} \/ (out = "ok" /\ PeerGone(s))

\* the hypervisor serves one control connection at a time: it writes the
\* greeting banner on a connection it has accepted
hv_greet(s) ==
  /\ IsOpen(s)
  /\ ~PeerGone(s)
  /\ ~sock[s].greeted
  /\ \A t \in Procs \ {s} :
        ~(IsOpen(t) /\ sock[t].peer = sock[s].peer /\ sock[t].greeted)
  /\ sock' = [sock EXCEPT ![s].greeted = TRUE,
                          ![s].intime = conn[s].pc # "done" /\ conn[s].elapsed < QmpTimeout,
                          ![s].inbox = Append(@, "greeting")]
  /\ UNCHANGED <<bundleVars, storeVars, taskVars, buildVars, objVars, procVars, waiter, conn, ncmds, ret>>

\* the hypervisor answers the oldest command it has not answered yet
hv_reply(s) ==
  /\ IsOpen(s)
  /\ ~PeerGone(s)
  /\ sock[s].greeted
  /\ sock[s].replied < Len(sock[s].wire)
  /\ sock' = [sock EXCEPT ![s].replied = @ + 1, ![s].inbox = Append(@, "return")]
  /\ UNCHANGED <<bundleVars, storeVars, taskVars, buildVars, objVars, procVars, waiter, conn, ncmds, ret>>

\* ------------------------------------------------------ ControlProtocolClient
\* the except clause of the retry loop: time.sleep(0.25) and back to the loop
\* test; a call that ran into the socket timeout has taken SockTimeout ticks
Failed(c, took) == [c EXCEPT !.pc = "loop", !.elapsed = @ + took + RetrySleep]

\* _try_connect_qmp up to the loop: read the port, take the start time, make
\* the socket
try_connect_qmp_begin(r) ==
  /\ conn[r].pc = "new"
  /\ LET port == config[procOwner[r]].qmp_port
     IN IF port = NoPort
        THEN /\ conn' = [conn EXCEPT ![r] = [NoConn EXCEPT !.pc = "done", !.out = "noport"]]
             /\ sock' = sock
        ELSE /\ conn' = [conn EXCEPT ![r] = [NoConn EXCEPT !.pc = "loop", !.port = port]]
             /\ sock' = [sock EXCEPT ![r] = [NoSocket EXCEPT !.st = "unconnected"]]
  /\ UNCHANGED <<bundleVars, storeVars, taskVars, buildVars, objVars, procVars, waiter, ncmds, ret>>

\* the loop test holds and s.connect() is called on the one socket s
try_connect_qmp_connect(r) ==
  /\ conn[r].pc = "loop"
  /\ conn[r].elapsed < QmpTimeout
  /\ LET st == sock[r].st
         srv == {p \in Procs : listening[p] /\ procPort[p] = conn[r].port}
     IN \/ /\ st = "unconnected"
           /\ \E p \in srv :
                sock' = [sock EXCEPT ![r].st = "completing", ![r].peer = p]
           /\ conn' = [conn EXCEPT ![r].pc = "greet"]
        \/ /\ st = "unconnected"
           /\ srv = {}
           /\ sock' = [sock EXCEPT ![r].st = "failed"]
           /\ conn' = [conn EXCEPT ![r] = Failed(@, 0)]
        \/ /\ st = "failed"
           /\ sock' = [sock EXCEPT ![r].st = "unconnected"]
           /\ conn' = [conn EXCEPT ![r] = Failed(@, 0)]
        \/ /\ st = "completing"
           /\ ~sock[r].rst
           /\ sock' = [sock EXCEPT ![r].st = "connected"]
           /\ conn' = [conn EXCEPT ![r].pc = "greet"]
        \/ /\ st = "completing"
           /\ sock[r].rst
           /\ sock' = [sock EXCEPT ![r] = [NoSocket EXCEPT !.st = "unconnected"]]
           /\ conn' = [conn EXCEPT ![r] = Failed(@, 0)]
        \/ /\ st = "connected"
           /\ sock' = sock
           /\ conn' = [conn EXCEPT ![r] = Failed(@, 0)]
  /\ UNCHANGED <<bundleVars, storeVars, taskVars, buildVars, objVars, procVars, waiter, ncmds, ret>>

\* greet = s.recv(8192)
try_connect_qmp_greet(r) ==
  /\ conn[r].pc = "greet"
  /\ \E out \in recv(r) :
       /\ conn' = [conn EXCEPT ![r] =
                     IF out \in {"data", "eof"} THEN [@ EXCEPT !.pc = "caps"]
                     ELSE Failed(@, IF out = "timeout" THEN SockTimeout ELSE 0)]
       /\ sock' = [sock EXCEPT ![r].inbox = <<>>, ![r].rst = Reset(r, out)]
  /\ UNCHANGED <<bundleVars, storeVars, taskVars, buildVars, objVars, procVars, waiter, ncmds, ret>>

\* s.sendall({"execute": "qmp_capabilities"})
try_connect_qmp_caps(r) ==
  /\ conn[r].pc = "caps"
  /\ \E out \in sendall(r) :
       IF out = "ok"
       THEN /\ sock' = [sock EXCEPT ![r].wire = Append(@, "qmp_capabilities"),
                                    ![r].rst = Reset(r, out)]
            /\ conn' = [conn EXCEPT ![r].pc = "reply"]
       ELSE /\ sock' = [sock EXCEPT ![r].rst = Reset(r, out)]
            /\ conn' = [conn EXCEPT ![r] = Failed(@, 0)]
  /\ UNCHANGED <<bundleVars, storeVars, taskVars, buildVars, objVars, procVars, waiter, ncmds, ret>>

\* _ = s.recv(8192); self.qmp_sock = s; return
try_connect_qmp_reply(r) ==
  /\ conn[r].pc = "reply"
  /\ \E out \in recv(r) :
       /\ IF out \in {"data", "eof"}
          THEN /\ conn' = [conn EXCEPT ![r] = [NoConn EXCEPT !.pc = "done", !.out = "ready"]]
               /\ qmp_sock' = [qmp_sock EXCEPT ![procOwner[r]] = r]
          ELSE /\ conn' = [conn EXCEPT ![r] =
                             Failed(@, IF out = "timeout" THEN SockTimeout ELSE 0)]
               /\ qmp_sock' = qmp_sock
       /\ sock' = [sock EXCEPT ![r].inbox = <<>>, ![r].rst = Reset(r, out)]
  /\ UNCHANGED <<bundleVars, storeVars, taskVars, buildVars, nobj, objName, config, proc, vms, procVars, waiter,
                 ncmds, ret>>

\* the loop test fails: s.close() and return
try_connect_qmp_close(r) ==
  /\ conn[r].pc = "loop"
  /\ conn[r].elapsed >= QmpTimeout
  /\ conn' = [conn EXCEPT ![r] = [NoConn EXCEPT !.pc = "done", !.out = "timeout"]]
  /\ sock' = [sock EXCEPT ![r].st = "closed"]
  /\ UNCHANGED <<bundleVars, storeVars, taskVars, buildVars, objVars, procVars, waiter, ncmds, ret>>

\* commands the caller sends
AppCommands == {"query-status"}

\* results of qmp_command that are exceptions raised to the caller
Raised == {"NotConnected", "SendError", "RecvError"}

\* the hypervisor writes an asynchronous event (SHUTDOWN, RESET, ...) on a
\* control connection it has greeted; nothing reads it until the next recv
hv_event(s) ==
  /\ IsOpen(s)
  /\ ~PeerGone(s)
  /\ sock[s].greeted
  /\ Len(sock[s].inbox) < MaxEvents
  /\ sock' = [sock EXCEPT ![s].inbox = Append(@, "event")]
  /\ UNCHANGED <<bundleVars, storeVars, taskVars, buildVars, objVars, procVars, waiter, conn, ncmds, ret>>

\* json.loads taking the first of several buffered messages
json_loads_first(resp) == IF Len(resp) >= 1 THEN "parsed" ELSE "raw"

\* json.loads(resp): one buffered message parses, anything else (nothing, or
\* several messages in the one read) is returned as {"raw": resp}
json_loads(resp) == IF Len(resp) = 1 THEN "parsed" ELSE "raw"

\* qmp_command past its guard, on socket s with result res: sendall, one recv
\* of what is buffered by then (answered: the hypervisor has answered within
\* the call), json.loads
qmp_exchange(s, cmd, res) ==
  \/ /\ "pipe" \in sendall(s)
     /\ res = "SendError"
     /\ sock' = [sock EXCEPT ![s].rst = TRUE]
     /\ ncmds' = ncmds
  \/ /\ "ok" \in sendall(s)
     /\ ncmds < MaxCmds
     /\ ncmds' = ncmds + 1
     /\ \E answered \in BOOLEAN :
          /\ answered => (~PeerGone(s) /\ sock[s].greeted)
          /\ LET sent == [sock[s] EXCEPT !.wire = Append(@, cmd)]
                 got == IF answered
                        THEN [sent EXCEPT !.replied = @ + 1,
                                          !.inbox = Append(@, "return")]
                        ELSE sent
             IN /\ sock' = [sock EXCEPT ![s] = [got EXCEPT !.inbox = <<>>,
                                                        !.rst = @ \/ PeerGone(s)]]
                /\ IF got.inbox # <<>> THEN res = json_loads(got.inbox)
                   ELSE IF PeerGone(s) THEN res \in {"raw", "RecvError"}
                   ELSE res = "RecvError"

\* qmp_command(cmd) with result res: raise without a socket, else the exchange
qmp_command_body(o, cmd, res) ==
  IF qmp_sock[o] = NoSock
  THEN res = "NotConnected" /\ UNCHANGED <<bundleVars, sock, ncmds>>
  ELSE qmp_exchange(qmp_sock[o], cmd, res)

\* qmp_command() called by the user of the VM object
qmp_command(o) ==
  /\ o \in 1..nobj
  /\ \E cmd \in AppCommands, res \in Raised \cup {"parsed", "raw"} :
       /\ qmp_command_body(o, cmd, res)
       /\ ret' = res
  /\ UNCHANGED <<bundleVars, storeVars, taskVars, buildVars, objVars, procVars, waiter, conn>>

\* stop() without the fall-back: a failed power-down is swallowed and the
\* handle is terminated only when there is no socket
stopNoFallback(o) ==
  /\ o \in 1..nobj
  /\ \E res \in Raised \cup {"parsed", "raw"} :
       /\ qmp_command_body(o, "system_powerdown", res)
       /\ IF res \notin Raised
          THEN procSig' = procSig /\ ret' = "powerdown"
          ELSE IF proc[o] # NoProc /\ qmp_sock[o] = NoSock
          THEN procSig' = send_signal(proc[o], "term") /\ ret' = "terminate"
          ELSE procSig' = procSig /\ ret' = "nothing"
  /\ UNCHANGED <<bundleVars, storeVars, taskVars, buildVars, objVars, nproc, procState, procRc, procPort, procOwner,
                 listening, waiter, conn>>

\* stop(): with a control socket send system_powerdown and return; if that
\* raises, or with no socket, terminate() the handle; every error is swallowed.
\* ret tells the way it took
stop(o) ==
  /\ o \in 1..nobj
  /\ \E res \in Raised \cup {"parsed", "raw"} :
       /\ qmp_command_body(o, "system_powerdown", res)
       /\ IF res \notin Raised
          THEN procSig' = procSig /\ ret' = "powerdown"
          ELSE IF proc[o] # NoProc
          THEN procSig' = send_signal(proc[o], "term") /\ ret' = "terminate"
          ELSE procSig' = procSig /\ ret' = "nothing"
  /\ UNCHANGED <<bundleVars, storeVars, taskVars, buildVars, objVars, nproc, procState, procRc, procPort, procOwner,
                 listening, waiter, conn>>

\* ------------------------------------------------------- the output streams
\* the process writes a line to one of its two pipes
hv_write(p, st) ==
  /\ procState[p] = "running"
  /\ Len(written[p][st]) < MaxLines
  /\ \E l \in Lines : written' = [written EXCEPT ![p][st] = Append(@, l)]
  /\ UNCHANGED <<bundleVars, storeVars, buildVars, objVars, procVars, waiter, conn, sock,
                 ncmds, reader, ret>>

\* a reader that drops the line it has read and hands over the one after it
read_stream_line_skipping(r, st) ==
  /\ reader[r][st].pc = "run"
  /\ Len(reader[r][st].got) + 1 < Len(written[r][st])
  /\ reader' = [reader EXCEPT ![r][st].got =
                  Append(@, written[r][st][Len(reader[r][st].got) + 2])]
  /\ UNCHANGED <<bundleVars, storeVars, buildVars, objVars, procVars, waiter, conn, sock,
                 ncmds, written, ret>>

\* read_stream, one turn of the loop with a line in the pipe: readline()
\* returns the next line and cb(line) is called, or one of the two raises and
\* the except clause ends the thread
read_stream_line(r, st) ==
  /\ reader[r][st].pc = "run"
  /\ Len(reader[r][st].got) < Len(written[r][st])
  /\ \/ reader' = [reader EXCEPT ![r][st].got =
                     Append(@, written[r][st][Len(reader[r][st].got) + 1])]
     \/ reader' = [reader EXCEPT ![r][st].pc = "failed"]
  /\ UNCHANGED <<bundleVars, storeVars, buildVars, objVars, procVars, waiter, conn, sock,
                 ncmds, written, ret>>

\* read_stream at the end of the pipe: the process has exited and every line
\* was read, readline() returns "" and the stream is closed
read_stream_eof(r, st) ==
  /\ reader[r][st].pc = "run"
  /\ procState[r] = "exited"
  /\ Len(reader[r][st].got) = Len(written[r][st])
  /\ reader' = [reader EXCEPT ![r][st].pc = "done"]
  /\ UNCHANGED <<bundleVars, storeVars, buildVars, objVars, procVars, waiter, conn, sock,
                 ncmds, written, ret>>

\* ------------------------------------------------------------- the VM store
\* _ensure_disks_list keeping only the keys of DEFAULT_CONFIG
ensure_disks_list_known_only(doc) ==
  [k \in (DOMAIN doc \cap DOMAIN DEFAULT_CONFIG("vm")) \cup {"disks"} |->
     IF k \in DOMAIN doc THEN doc[k] ELSE <<>>]

\* _ensure_disks_list: a configuration without the key "disks" gets an empty
\* list; every other key stays as it was read
ensure_disks_list(doc) ==
  IF "disks" \in DOMAIN doc THEN doc
  ELSE [k \in DOMAIN doc \cup {"disks"} |-> IF k = "disks" THEN <<>> ELSE doc[k]]

\* save_config(): json.dump of the whole configuration to config_path
save_config(st, n, cfg) == [st EXCEPT ![n] = cfg]

\* _load_or_init stamping the creation time on a document it has read
load_or_init_restamped(st, n) ==
  LET cfg == [ensure_disks_list(st[n]) EXCEPT !.created = now_iso]
  IN [config |-> cfg, stored |-> save_config(st, n, cfg)]

\* _load_or_init on a directory that has a config.json: the document is
\* read, the list ensured, and the configuration saved when it was added
load_or_init(st, n) ==
  LET cfg == ensure_disks_list(st[n])
  IN [config |-> cfg, stored |-> IF cfg = st[n] THEN st ELSE save_config(st, n, cfg)]

\* VM(n) for a name that has no directory: _load_or_init makes the
\* directories, copies DEFAULT_CONFIG with dict(), sets the name and saves
create(n) ==
  /\ n \in NewNames \ Dirs
  /\ nobj < MaxObjs
  /\ LET o == nobj + 1
         cfg == DEFAULT_CONFIG(n)
     IN /\ nobj' = o
        /\ objName' = [objName EXCEPT ![o] = n]
        /\ config' = [config EXCEPT ![o] = cfg]
        /\ shares' = [shares EXCEPT ![o] = TRUE]
        /\ stored' = [stored EXCEPT ![n] = cfg]
  /\ ret' = "ok"
  /\ UNCHANGED <<bundleVars, files, proc, qmp_sock, vms, defaults, qemu_cmd, taskVars,
                 procVars, waiter, conn, sock, ncmds>>

\* values of the form fields _on_save_config reads
Graphics == {"sdl", "vnc"}

\* MainWindow._on_save_config on object o: the fields of the form are put
\* into the configuration and it is saved
on_save_config(o, graphics, fmt) ==
  /\ o \in 1..nobj
  /\ HasDir(objName[o])
  /\ LET cfg == [config[o] EXCEPT !.graphics = graphics, !.disk_format = fmt]
     IN /\ config' = [config EXCEPT ![o] = cfg]
        /\ stored' = [stored EXCEPT ![objName[o]] = cfg]
  /\ ret' = "ok"
  /\ UNCHANGED <<bundleVars, files, nobj, objName, proc, qmp_sock, vms, buildVars, taskVars,
                 procVars, waiter, conn, sock, ncmds>>

\* MainWindow._load_vms: vms is cleared and one new VM object is constructed
\* for every directory of VMS_DIR; the objects made before stay with whoever
\* holds them (the selection, the threads of their runs)
load_vms ==
  /\ nobj + Cardinality(Dirs) <= MaxObjs
  /\ \E f \in [Dirs -> (nobj + 1)..(nobj + Cardinality(Dirs))] :
       /\ \A m, n \in Dirs : f[m] = f[n] => m = n
       /\ vms' = f
       /\ objName' = [o \in Objs |-> IF \E n \in Dirs : f[n] = o
                                     THEN CHOOSE n \in Dirs : f[n] = o
                                     ELSE objName[o]]
       /\ config' = [o \in Objs |-> IF \E n \in Dirs : f[n] = o
                                    THEN load_or_init(stored, CHOOSE n \in Dirs : f[n] = o).config
                                    ELSE config[o]]
  /\ stored' = [n \in AllNames |-> IF n \in Dirs THEN load_or_init(stored, n).stored[n]
                                   ELSE stored[n]]
  /\ nobj' = nobj + Cardinality(Dirs)
  /\ UNCHANGED <<bundleVars, files, taskVars, buildVars, proc, qmp_sock, procVars, waiter, conn, sock, ncmds, ret>>

\* ------------------------------------------------------------- BundleManager
\* a file exists at the path
Exists(path) == \E f \in files : f.path = path
FileAt(path) == CHOOSE f \in files : f.path = path

\* the members tar.add writes: the configuration file, a disk file, the
\* install medium; root is the first component of the member's name
ConfigMember(root, doc) ==
  [root |-> root, kind |-> "config", name |-> <<"config.json">>, body |-> doc]
DiskMember(root, f) ==
  [root |-> root, kind |-> "disks", name |-> Tail(f.path), body |-> f]
IsoMember(root, iso) ==
  [root |-> root, kind |-> "iso", name |-> <<iso>>, body |-> [path |-> iso]]

\* the disk members of export_bundle: one for every DiskSpec of the
\* configuration in memory whose file exists, in the order of the list
DiskMembers(o) ==
  LET there == SelectSeq(config[o].disks, LAMBDA d : Exists(d.path))
  IN [i \in 1..Len(there) |-> DiskMember(objName[o], FileAt(there[i].path))]

\* the install medium added whatever include_iso says
IsoMembersAlways(o, include_iso) ==
  IF config[o].iso_path # NoIso /\ isofile
  THEN <<IsoMember(objName[o], config[o].iso_path)>> ELSE <<>>

\* the install medium is added when asked for, configured and there
IsoMembers(o, include_iso) ==
  IF include_iso /\ config[o].iso_path # NoIso /\ isofile
  THEN <<IsoMember(objName[o], config[o].iso_path)>> ELSE <<>>

\* export_bundle(dest, include_iso) called on object o: dest is opened for
\* writing, then the stored configuration file, the disks and the install
\* medium are added; without the configuration file tar.add raises and the
\* archive is left with no member
export_bundle(o, include_iso) ==
  /\ o \in 1..nobj
  /\ IF ~HasDir(objName[o])
     THEN /\ bundle' = [made |-> TRUE, members |-> <<>>]
          /\ ret' = "ExportError"
     ELSE /\ bundle' = [made |-> TRUE,
                        members |-> <<ConfigMember(objName[o], stored[objName[o]])>>
                                    \o DiskMembers(o) \o IsoMembers(o, include_iso)]
          /\ ret' = "exported"
  /\ UNCHANGED <<isofile, storeVars, taskVars, buildVars, objVars, procVars,
                 waiter, conn, sock, ncmds>>

\* an archive that was not written in this store: one configuration written
\* by a program that kept no disks list, with a key this program does not
\* know
ForeignDoc ==
  [name |-> "web01", created |-> Earlier, disk_format |-> DEFAULT_DISK_FORMAT,
   graphics |-> "sdl", iso_path |-> NoIso, qmp_port |-> NoPort,
   vnc_port |-> NoPort, note |-> "keep"]
ForeignBundle == <<ConfigMember("web01", ForeignDoc)>>

\* the archives a caller can pass to import_bundle
Bundles == {ForeignBundle} \cup (IF bundle.made THEN {bundle.members} ELSE {})

\* target_dir.exists() finding nothing
target_dir_exists_never(root) == FALSE

\* target_dir.exists(): VMS_DIR has a directory of the inferred name
target_dir_exists(root) == root \in Dirs

\* tar.extractall(path=VMS_DIR): every member is written below VMS_DIR, a
\* later member replacing an earlier one of the same name
ExtractDocs(st, m) ==
  [n \in AllNames |->
     LET is == {i \in DOMAIN m : m[i].kind = "config" /\ m[i].root = n}
     IN IF is = {} THEN st[n]
        ELSE m[CHOOSE i \in is : \A j \in is : j <= i].body]
ExtractFiles(fs, m) ==
  LET is == {i \in DOMAIN m : m[i].kind = "disks"}
      last == {i \in is : \A j \in is :
                 (m[j].root = m[i].root /\ m[j].name = m[i].name) => j <= i}
      out(i) == [path |-> <<m[i].root>> \o m[i].name, gib |-> m[i].body.gib,
                 kind |-> m[i].body.kind]
  IN {f \in fs : \A i \in last : out(i).path # f.path} \cup {out(i) : i \in last}

\* VM.import_bundle(bundle_path) on an archive with the members m
import_bundle(m) ==
  \/ /\ m = <<>>
     /\ ret' = "EmptyBundle"
     /\ UNCHANGED <<bundleVars, storeVars, taskVars, buildVars, objVars, procVars,
                    waiter, conn, sock, ncmds>>
  \/ /\ m # <<>>
     /\ target_dir_exists(m[1].root)
     /\ ret' = "AlreadyExists"
     /\ UNCHANGED <<bundleVars, storeVars, taskVars, buildVars, objVars, procVars,
                    waiter, conn, sock, ncmds>>
  \/ /\ m # <<>>
     /\ ~target_dir_exists(m[1].root)
     /\ nobj < MaxObjs
     /\ LET root == m[1].root
            o == nobj + 1
            loaded == load_or_init(ExtractDocs(stored, m), root)
        IN /\ stored' = loaded.stored
           /\ files' = ExtractFiles(files, m)
           /\ nobj' = o
           /\ objName' = [objName EXCEPT ![o] = root]
           /\ config' = [config EXCEPT ![o] = loaded.config]
           /\ shares' = [shares EXCEPT ![o] = FALSE]
     /\ ret' = "imported"
     /\ UNCHANGED <<bundleVars, proc, qmp_sock, vms, defaults, qemu_cmd, taskVars,
                    procVars, waiter, conn, sock, ncmds>>

\* MainWindow._on_delete on object o: shutil.rmtree(path) removes the
\* directory with its configuration and disks, then _load_vms makes a new
\* object for every directory that is left
on_delete(o) ==
  /\ o \in 1..nobj
  /\ HasDir(objName[o])
  /\ LET left == Dirs \ {objName[o]}
     IN /\ nobj + Cardinality(left) <= MaxObjs
        /\ \E f \in [left -> (nobj + 1)..(nobj + Cardinality(left))] :
             /\ \A m, n \in left : f[m] = f[n] => m = n
             /\ vms' = f
             /\ objName' = [q \in Objs |-> IF \E n \in left : f[n] = q
                                           THEN CHOOSE n \in left : f[n] = q
                                           ELSE objName[q]]
             /\ config' = [q \in Objs |-> IF \E n \in left : f[n] = q
                                          THEN load_or_init(stored, CHOOSE n \in left : f[n] = q).config
                                          ELSE config[q]]
        /\ nobj' = nobj + Cardinality(left)
        /\ stored' = [n \in AllNames |-> IF n \in left THEN load_or_init(stored, n).stored[n]
                                         ELSE NoDoc]
  /\ files' = {f \in files : DirOf(f.path) # objName[o]}
  /\ ret' = "deleted"
  /\ UNCHANGED <<bundleVars, taskVars, buildVars, proc, qmp_sock, procVars, waiter,
                 conn, sock, ncmds>>

\* MainWindow._on_attach_iso on object o: the path picked in the file dialog
\* is put into the configuration and it is saved
on_attach_iso(o, path) ==
  /\ o \in 1..nobj
  /\ HasDir(objName[o])
  /\ LET cfg == [config[o] EXCEPT !.iso_path = path]
     IN /\ config' = [config EXCEPT ![o] = cfg]
        /\ stored' = save_config(stored, objName[o], cfg)
  /\ isofile' = TRUE
  /\ ret' = "ok"
  /\ UNCHANGED <<bundle, files, nobj, objName, proc, qmp_sock, vms, buildVars,
                 taskVars, procVars, waiter, conn, sock, ncmds>>

\* the file iso_path names is removed from the host
iso_removed ==
  /\ isofile
  /\ isofile' = FALSE
  /\ UNCHANGED <<bundle, storeVars, taskVars, buildVars, objVars, procVars, waiter,
                 conn, sock, ncmds, ret>>

\* save_config() called on object o with nothing changed before
save_config_call(o) ==
  /\ o \in 1..nobj
  /\ HasDir(objName[o])
  /\ stored' = save_config(stored, objName[o], config[o])
  /\ ret' = "saved"
  /\ UNCHANGED <<bundleVars, files, taskVars, buildVars, objVars, procVars, waiter,
                 conn, sock, ncmds>>

\* ---------------------------------------------------------- specifications
\* no connection thread of an earlier run is still at work
ConnIdle == \A r \in Procs : conn[r].pc \in {"none", "done"}

\* the VM object has not been started yet
FirstRun == nproc = 0

\* the process supervisor: the calls on the process handle, the reload of the
\* store and the processes
NextSupervisor ==
  \/ \E o \in Objs : start(o)
  \/ \E o \in Objs : stop(o)
  \/ \E o \in Objs : kill(o)
  \/ load_vms
  \/ \E p \in Procs : hv_exit(p)

SpecSupervisor == Init /\ [][NextSupervisor]_vars

\* the supervisor with the waiter threads of its runs
NextWaiter ==
  \/ NextSupervisor
  \/ \E r \in Procs : waitproc_wait(r)
  \/ \E r \in Procs : waitproc_exit_cb(r)

SpecWaiter == Init /\ [][NextWaiter]_vars

\* the connection thread and the hypervisor's end of the control connection
NextConnection ==
  \/ \E r \in Procs : try_connect_qmp_begin(r)
  \/ \E r \in Procs : try_connect_qmp_connect(r)
  \/ \E r \in Procs : try_connect_qmp_greet(r)
  \/ \E r \in Procs : try_connect_qmp_caps(r)
  \/ \E r \in Procs : try_connect_qmp_reply(r)
  \/ \E r \in Procs : try_connect_qmp_close(r)
  \/ \E p \in Procs : hv_exit(p)
  \/ \E p \in Procs : hv_listen(p)
  \/ \E s \in Procs : hv_greet(s)
  \/ \E s \in Procs : hv_reply(s)

\* the protocol client during the first run of a VM object, with the calls
\* of its user
NextClient ==
  \/ FirstRun /\ start(1)
  \/ stop(1)
  \/ kill(1)
  \/ qmp_command(1)
  \/ NextConnection

SpecClient == Init /\ [][NextClient]_vars

\* the protocol client during the first run with a hypervisor that also
\* emits asynchronous events
NextCommands ==
  \/ NextClient
  \/ \E s \in Procs : hv_event(s)

SpecCommands == Init /\ [][NextCommands]_vars

\* the protocol client over restarts of a VM object, each started after the
\* connection thread of the run before has finished, with the commands of
\* its user
NextRestart ==
  \/ ConnIdle /\ start(1)
  \/ qmp_command(1)
  \/ NextConnection

SpecRestart == Init /\ [][NextRestart]_vars

\* the waiter and connection threads of the runs of one VM object, started,
\* killed and started again at any time (the reader threads end in
\* NextStreams)
NextTasks ==
  \/ start(1)
  \/ kill(1)
  \/ \E p \in Procs : hv_exit(p)
  \/ \E r \in Procs : waitproc_wait(r)
  \/ \E r \in Procs : waitproc_exit_cb(r)
  \/ \E r \in Procs : try_connect_qmp_begin(r)
  \/ \E r \in Procs : try_connect_qmp_connect(r)
  \/ \E r \in Procs : try_connect_qmp_close(r)

SpecTasks == Init /\ [][NextTasks]_vars

\* the two output streams of the first run of a VM object with their reader
\* threads and the waiter thread
NextStreams ==
  \/ FirstRun /\ start(1)
  \/ kill(1)
  \/ \E p \in Procs : hv_exit(p)
  \/ \E p \in Procs, st \in Streams : hv_write(p, st)
  \/ \E r \in Procs, st \in Streams : read_stream_line(r, st)
  \/ \E r \in Procs, st \in Streams : read_stream_eof(r, st)
  \/ \E r \in Procs : waitproc_wait(r)
  \/ \E r \in Procs : waitproc_exit_cb(r)

SpecStreams == Init /\ [][NextStreams]_vars

\* the operations that change a configuration: VMs are created, given their
\* graphics and disks, and built
NextSaves ==
  \/ \E n \in NewNames : create(n)
  \/ \E o \in Objs, g \in Graphics : on_save_config(o, g, config[o].disk_format)
  \/ \E o \in Objs, name \in DiskNames, gib \in Gibs :
        create_disk_call(o, name, gib, config[o].disk_format)
  \/ \E o \in Objs : ensure_primary_disk_call(o)
  \/ \E o \in Objs : build(o, NoEmbed)

SpecSaves == Init /\ [][NextSaves]_vars

\* the bundle manager: the VM gets disks and an install medium, is saved,
\* exported, deleted and imported again, the store is reloaded
NextBundles ==
  \/ \E o \in Objs : ensure_primary_disk_call(o)
  \/ \E o \in Objs, path \in IsoPaths : on_attach_iso(o, path)
  \/ iso_removed
  \/ \E o \in Objs : save_config_call(o)
  \/ \E o \in Objs, include_iso \in BOOLEAN : export_bundle(o, include_iso)
  \/ \E o \in Objs : on_delete(o)
  \/ \E m \in Bundles : import_bundle(m)
  \/ load_vms

SpecBundles == Init /\ [][NextBundles]_vars

\* the disk manager: VMs are created, given a disk format and disks of that
\* format, and built
NextDisks ==
  \/ \E n \in NewNames : create(n)
  \/ \E o \in Objs, fmt \in Formats : on_save_config(o, config[o].graphics, fmt)
  \/ \E o \in Objs, name \in DiskNames, gib \in Gibs :
        create_disk_call(o, name, gib, config[o].disk_format)
  \/ \E o \in Objs : ensure_primary_disk_call(o)
  \/ \E o \in Objs : build(o, NoEmbed)

SpecDisks == Init /\ [][NextDisks]_vars

\* the command builder: the VM is given its graphics, built and started, its
\* processes exit
NextBuilder ==
  \/ \E g \in Graphics : on_save_config(1, g, config[1].disk_format)
  \/ \E embed \in Embeds : build(1, embed)
  \/ start(1)
  \/ \E p \in Procs : hv_exit(p)

SpecBuilder == Init /\ [][NextBuilder]_vars

\* everything together
Next ==
  \/ NextWaiter
  \/ NextConnection
  \/ NextTasks
  \/ NextStreams
  \/ NextBuilder
  \/ NextDisks
  \/ NextSaves
  \/ NextBundles
  \/ NextCommands
  \/ \E o \in Objs : qmp_command(o)

Spec == Init /\ [][Next]_vars

\* ================================================================= claims
\* the handle of o refers to a process that has not exited
Live(o) == proc[o] # NoProc /\ procState[proc[o]] = "running"

\* the processes of VM name n that have not exited
LiveOf(n) == {p \in Procs : procState[p] = "running" /\ objName[procOwner[p]] = n}

\* the capabilities commands written on socket s
CapsOn(s) == {i \in DOMAIN sock[s].wire : sock[s].wire[i] = "qmp_capabilities"}

\* a terminate() of the handle of o has been requested in this step
TerminateRequested(o) ==
  procSig' = IF Live(o) /\ procSig[proc[o]] # "kill"
             THEN [procSig EXCEPT ![proc[o]] = "term"] ELSE procSig

\* C1: a start() called while the handle's process has not exited fails with
\* AlreadyRunning and spawns nothing: the process table, the handles and the
\* threads are as before the call.
C1_StartRefusedWhileRunning ==
  [][\A o \in Objs : (Live(o) /\ start(o)) =>
        /\ ret' = "AlreadyRunning"
        /\ UNCHANGED <<nproc, proc, procState, waiter, conn>>]_vars

\* C1 witness: a start() has been refused on a VM whose process is alive
C1_Witness == ret = "AlreadyRunning" /\ nproc = 1 /\ Live(1)

\* C2: at any time a VM name has at most one live hypervisor process, also
\* across reloads of the store.
C2_OneLiveProcessPerName == \A n \in Names : Cardinality(LiveOf(n)) <= 1

\* the connection thread of the current run of o has completed the handshake
Handshaken(o) ==
  proc[o] # NoProc /\ conn[proc[o]].pc = "done" /\ conn[proc[o]].out = "ready"

\* C3: while the client is not Ready (the handshake with the current process
\* has not completed: Disconnected, Connecting or Handshaking) qmp_command
\* fails with NotConnected and no socket is written.
C3_NotReadyRejects ==
  [][\A o \in Objs : (qmp_command(o) /\ ~Handshaken(o)) =>
        (ret' = "NotConnected" /\ sock' = sock /\ ncmds' = ncmds)]_vars

\* C4: a client that is Ready holds an established connection on which the
\* capabilities command was written exactly once, before any other command.
C4_HandshakeOncePerConnection ==
  \A o \in Objs : qmp_sock[o] # NoSock =>
     /\ IsOpen(qmp_sock[o])
     /\ Cardinality(CapsOn(qmp_sock[o])) = 1
     /\ sock[qmp_sock[o]].wire[1] = "qmp_capabilities"

\* C5: a qmp_command that ends in a socket error leaves the client
\* Disconnected: the control socket is absent afterwards.
C5_SocketErrorDisconnects ==
  [][\A o \in Objs : (qmp_command(o) /\ ret' \in {"SendError", "RecvError"}) =>
        qmp_sock'[o] = NoSock]_vars

\* C6: the exit callback of a run reports the process that run spawned, with
\* that process's exit code, and no process is reported by two runs.
C6_ExitReportedOncePerRun ==
  /\ \A r \in Procs : waiter[r].pc = "done" =>
        (waiter[r].target = r /\ waiter[r].rc = procRc[r])
  /\ \A q, r \in Procs :
        (waiter[q].pc = "done" /\ waiter[r].pc = "done" /\
         waiter[q].target = waiter[r].target) => q = r

\* C7 as claimed: stop() with a control socket writes system_powerdown and
\* requests no termination; without one it requests terminate() and writes
\* nothing.
C7_StopAsClaimed ==
  [][\A o \in Objs : stop(o) =>
        IF qmp_sock[o] # NoSock
        THEN /\ sock'[qmp_sock[o]].wire =
                  Append(sock[qmp_sock[o]].wire, "system_powerdown")
             /\ procSig' = procSig
        ELSE sock' = sock /\ TerminateRequested(o)]_vars

\* C7 amended: stop() with a control socket attempts system_powerdown; when
\* the exchange raises nothing the command was written and no termination is
\* requested, when it raises stop() falls back to terminate(); without a
\* socket it requests terminate() and writes nothing.
C7_StopFallsBack ==
  [][\A o \in Objs : stop(o) =>
        IF qmp_sock[o] # NoSock
        THEN \/ /\ ret' = "powerdown"
                /\ sock'[qmp_sock[o]].wire =
                     Append(sock[qmp_sock[o]].wire, "system_powerdown")
                /\ procSig' = procSig
             \/ /\ ret' \in {"terminate", "nothing"}
                /\ TerminateRequested(o)
        ELSE sock' = sock /\ TerminateRequested(o)]_vars

\* C7 witness: stop() on a connected VM has fallen back to terminate()
C7_Witness ==
  ret = "terminate" /\ qmp_sock[1] # NoSock /\ Live(1) /\ procSig[proc[1]] = "term"

\* C8: kill() sends SIGKILL to the handle's process and touches neither the
\* control socket, the connection state nor the configuration; without a
\* handle it changes nothing.
C8_KillFrame ==
  [][\A o \in Objs : kill(o) =>
        /\ UNCHANGED <<sock, qmp_sock, conn, ncmds, stored, config, files>>
        /\ IF proc[o] = NoProc THEN procSig' = procSig
           ELSE Live(o) => procSig'[proc[o]] = "kill"]_vars

\* C8 witness: a connected VM has been killed
C8_Witness == qmp_sock[1] # NoSock /\ Live(1) /\ procSig[proc[1]] = "kill"

\* C9: the connection thread of the current run, once finished, either made
\* the client Ready,
\* or gave up after the window, leaving its socket closed and the client
\* Disconnected.
C9_ConnectorEndsReadyOrDisconnected ==
  \A o \in Objs : (proc[o] # NoProc /\ conn[proc[o]].pc = "done") =>
     LET r == proc[o]
     IN \/ conn[r].out = "ready" /\ qmp_sock[o] = r
        \/ /\ conn[r].out = "timeout"
           /\ sock[r].st = "closed"
           /\ qmp_sock[o] = NoSock

\* C10: when the hypervisor has accepted the connection, written its
\* greeting while the window was open and answered every command it got, the
\* connection thread does not end without the client Ready.
C10_ReadyOnceAnswered ==
  \A r \in Procs :
     ( /\ conn[r].pc = "done"
       /\ sock[r].intime
       /\ ~PeerGone(r)
       /\ sock[r].replied = Len(sock[r].wire) ) => conn[r].out = "ready"

\* the reader threads of the runs of o that have not ended
ReadersAlive(o) ==
  {rs \in Procs \X Streams : procOwner[rs[1]] = o /\ reader[rs[1]][rs[2]].pc = "run"}

\* the waitproc threads of the runs of o that have not ended
WaitersAlive(o) ==
  {r \in Procs : procOwner[r] = o /\ waiter[r].pc \in {"new", "wait"}}

\* the _try_connect_qmp threads of the runs of o that have not ended
ConnectorsAlive(o) ==
  {r \in Procs : procOwner[r] = o /\ conn[r].pc \notin {"none", "done"}}

\* C11: at every point a VM has at most two reader threads, at most one
\* waitproc thread and at most one _try_connect_qmp thread alive, also when a
\* kill or an exit is followed by a restart.
C11_TasksPerVM ==
  \A o \in Objs :
     /\ Cardinality(ReadersAlive(o)) <= 2
     /\ Cardinality(WaitersAlive(o)) <= 1
     /\ Cardinality(ConnectorsAlive(o)) <= 1

\* sequence s is the beginning of sequence t
IsPrefix(s, t) == Len(s) <= Len(t) /\ \A i \in 1..Len(s) : s[i] = t[i]

\* C12 as claimed: once a stream is closed (its process has exited) and its
\* reader thread has ended, the lines handed to the callback are exactly the
\* lines the process wrote to that stream.
C12_DeliveredAllAsClaimed ==
  \A r \in Procs, st \in Streams :
     (procState[r] = "exited" /\ reader[r][st].pc \in {"done", "failed"}) =>
        reader[r][st].got = written[r][st]

\* C12 amended: at any time the lines handed to a stream's callback are the
\* first lines the process wrote to that stream, each once and in the order
\* written, and a reader that has ended at the end of the stream has handed
\* over all of them; a reader ended by an exception may have handed over fewer.
C12_DeliveredPrefix ==
  \A r \in Procs, st \in Streams :
     /\ IsPrefix(reader[r][st].got, written[r][st])
     /\ reader[r][st].pc = "done" => reader[r][st].got = written[r][st]

\* C12 witness: a reader was ended by an exception after the first of the two
\* lines of its stream, the other stream's reader has read to the end
C12_Witness ==
  /\ reader[1]["stdout"].pc = "failed"
  /\ Len(reader[1]["stdout"].got) = 1
  /\ Len(written[1]["stdout"]) = 2
  /\ reader[1]["stderr"].pc = "done"
  /\ Len(written[1]["stderr"]) = 2

\* the numbers the options opt of vector v were formatted from
Args(v, opt) == {v[i].n : i \in {j \in DOMAIN v : v[j].opt = opt}}

PortsSet(o) ==
  /\ config[o].qmp_port # NoPort
  /\ config[o].graphics = "vnc" => config[o].vnc_port # NoPort

\* the vector of this step is the one build_qemu_cmd returns for the
\* configuration of o and the embed surface e whatever the two binds get
SameForAnyPorts(o, e) ==
  \A port \in Ports, vport \in VncPorts :
     qemu_cmd' = CommandVector(build_qemu_cmd(o, port, vport), e)

\* C14 as claimed: a build that returns gives, for the configuration and the
\* embed surface it was called with, the one vector every build with that
\* input gives.
C14_DeterministicAsClaimed ==
  [][\A o \in 1..nobj, e \in Embeds :
       (ret' = "cmd" /\ build(o, e)) => SameForAnyPorts(o, e)]_vars

\* C14 amended: a build called with a configuration that holds the ports it
\* needs (the control port, and the VNC port for vnc graphics) gives the one
\* vector every build with that configuration and embed surface gives.
C14_DeterministicOncePortsSet ==
  [][\A o \in 1..nobj, e \in Embeds :
       (ret' = "cmd" /\ PortsSet(o) /\ build(o, e)) => SameForAnyPorts(o, e)]_vars

\* C14 witness: a build with an embed surface has returned after an earlier
\* build had allocated both ports
C14_Witness ==
  /\ nproc = 0
  /\ config[1].vnc_port # NoPort
  /\ config[1].qmp_port # NoPort
  /\ \E i \in DOMAIN qemu_cmd : qemu_cmd[i] = Tok("-display", <<"sdl", "window-id">>, 7)

\* the DiskSpec ensure_primary_disk registers for o
PrimaryDiskSpec(o) ==
  [path |-> DiskPath(o, PrimaryDiskName(o)), format |-> config[o].disk_format]

\* C15: ensure_primary_disk called on a VM with no disks, when it returns, has
\* registered exactly one DiskSpec, named <vm>-disk0.<format>, and made its
\* file with the size disk_gib; called on a VM with disks it changes neither
\* the disk list nor the files nor the stored configuration.
C15_EnsurePrimaryDiskIdempotent ==
  [][\A o \in 1..nobj : ensure_primary_disk_call(o) =>
        IF config[o].disks = <<>>
        THEN ret' = "ok" =>
               /\ config'[o].disks = <<PrimaryDiskSpec(o)>>
               /\ stored'[objName[o]].disks = <<PrimaryDiskSpec(o)>>
               /\ \E f \in files' : /\ f.path = PrimaryDiskSpec(o).path
                                    /\ f.gib = Unedited.disk_gib
        ELSE /\ config'[o].disks = config[o].disks
             /\ files' = files
             /\ stored' = stored]_vars

\* C15 witness: the new VM web01 has exactly its primary disk, with its file
C15_Witness ==
  /\ nobj = 2
  /\ objName[2] = "web01"
  /\ ret = "ok"
  /\ config[2].disks = <<[path |-> <<"web01", "web01", "disk0", "raw">>, format |-> "raw"]>>
  /\ \E f \in files : f.path = <<"web01", "web01", "disk0", "raw">> /\ f.gib = 32

\* the -drive options of vector v, in the order of v
Drives(v) == LET IsDrive(t) == t.opt = "-drive" IN SelectSeq(v, IsDrive)

PathsDistinct(d) == \A i, j \in DOMAIN d : d[i].path = d[j].path => i = j

\* C17: the DiskSpec paths of a VM are pairwise distinct, and every path of a
\* -drive of a vector a build returns names a file that exists, at that time,
\* in the disk directory of the VM that was built.
C17_DrivePathsExistAndDistinct ==
  [][/\ \A o \in 1..nobj' : PathsDistinct(config'[o].disks)
     /\ \A o \in 1..nobj, e \in Embeds : (ret' = "cmd" /\ build(o, e)) =>
          \A i \in DOMAIN config'[o].disks :
             /\ DirOf(config'[o].disks[i].path) = objName[o]
             /\ \E f \in files' : f.path = config'[o].disks[i].path]_vars

AllMade(d, fs) == \A i \in DOMAIN d : \E f \in fs : f.path = d[i].path

\* C19: a disk creation that fails appends no DiskSpec and leaves the stored
\* configuration as it was, and every DiskSpec registered in a configuration,
\* in memory or stored, is one whose creation step made its file.
C19_FailedCreationRegistersNothing ==
  [][/\ ret' = "DiskError" => UNCHANGED <<config, stored, defaults, files>>
     /\ \A o \in 1..nobj' : AllMade(config'[o].disks, files')
     /\ \A n \in AllNames : stored'[n] # NoDoc => AllMade(stored'[n].disks, files')]_vars

\* C19 witness: a create_disk on a VM that has one disk has failed
C19_Witness ==
  /\ ret = "DiskError"
  /\ Len(config[1].disks) = 1
  /\ stored["vm"].disks = config[1].disks
  /\ Cardinality(files) = 1

\* the image at path p in fs is a raw sparse file
RawAt(p, fs) == \E f \in fs : f.path = p /\ f.kind = "raw"

\* C20: no configuration registers a DiskSpec labelled with a format other
\* than raw whose file is a raw sparse file (create_disk for such a format
\* without the image tool fails and registers nothing).
C20_NoRawFileBehindOtherFormat ==
  \A o \in 1..nobj : \A i \in DOMAIN config[o].disks :
     config[o].disks[i].format # "raw" => ~RawAt(config[o].disks[i].path, files)

\* C26: whenever a VM object holds a control socket, it is the socket its
\* current run's connection thread made, and the process of that run has not
\* exited: the socket of an earlier run or of an exited process is not kept.
C26_SocketOfCurrentRun ==
  \A o \in Objs : qmp_sock[o] # NoSock =>
     (qmp_sock[o] = proc[o] /\ Handshaken(o) /\ Live(o))

\* the number of messages the one recv of a qmp_command on socket s returns:
\* what was buffered before the call and the answer that came within it
ReadBy(s) == Len(sock[s].inbox) + (sock'[s].replied - sock[s].replied)

\* a qmp_command on socket s has written one command, emptied the receive
\* buffer with one read, and returned the parsed object when that read held
\* one message and {raw: ...} otherwise, leaving the connection as it was
OneWriteOneRead(s) ==
  /\ Len(sock'[s].wire) = Len(sock[s].wire) + 1
  /\ ncmds' = ncmds + 1
  /\ sock'[s].inbox = <<>>
  /\ ret' = IF ReadBy(s) = 1 THEN "parsed" ELSE "raw"
  /\ sock'[s].st = sock[s].st
  /\ UNCHANGED <<qmp_sock, conn>>

\* C25 as claimed: every qmp_command made with a control socket to a live
\* process writes one command, reads once and returns the parsed object or
\* {raw: ...}.
C25_EveryCallAsClaimed ==
  [][\A o \in Objs : (qmp_sock[o] # NoSock /\ Live(o) /\ qmp_command(o)) =>
        OneWriteOneRead(qmp_sock[o])]_vars

\* C25 amended: a qmp_command made with a control socket either raises the
\* socket error of its sendall (nothing written) or of its recv (one command
\* written), or has written exactly one command, read once and returned the
\* parsed object when the read held one message and {raw: ...} otherwise; a
\* read that does not parse raises nothing and leaves the connection state.
C25_OneWriteOneReadUnlessSocketError ==
  [][\A o \in Objs : (qmp_sock[o] # NoSock /\ qmp_command(o)) =>
        LET s == qmp_sock[o]
        IN \/ /\ ret' = "SendError"
              /\ sock'[s].wire = sock[s].wire
           \/ /\ ret' = "RecvError"
              /\ Len(sock'[s].wire) = Len(sock[s].wire) + 1
              /\ ReadBy(s) = 0
           \/ OneWriteOneRead(s)]_vars

\* C25 witness: a command sent to a live hypervisor has read an event
\* together with its answer and returned {raw: ...}, the socket still held
C25_Witness ==
  /\ ret = "raw"
  /\ ncmds = 1
  /\ qmp_sock[1] = 1
  /\ Live(1)
  /\ sock[1].replied = 2
  /\ sock[1].st = "connected"

\* the store and the VM objects are as before the step
StoreUntouched == UNCHANGED <<stored, files, nobj, objName, config, vms>>

\* C21: import_bundle of an archive without members fails with EmptyBundle,
\* of an archive whose inferred name has a directory with AlreadyExists; in
\* both cases nothing is extracted and the store is unchanged. After an
\* import that succeeded the inferred name has a directory, so importing the
\* same archive again fails with AlreadyExists.
C21_ImportRefusals ==
  [][\A m \in Bundles :
       (ret' \in {"EmptyBundle", "AlreadyExists", "imported"} /\ import_bundle(m)) =>
          /\ m = <<>> => (ret' = "EmptyBundle" /\ StoreUntouched)
          /\ (m # <<>> /\ m[1].root \in Dirs) => (ret' = "AlreadyExists" /\ StoreUntouched)
          /\ ret' = "imported" => (m[1].root \in Dirs' /\ m[1].root \notin Dirs)]_vars

\* C21 witness: the exported archive of "vm" was imported after the VM had
\* been deleted, and a second import of it has failed with AlreadyExists
C21_Witness ==
  /\ ret = "AlreadyExists"
  /\ DOMAIN vms = {}
  /\ "vm" \in Dirs
  /\ bundle.made
  /\ bundle.members # <<>>
  /\ bundle.members[1].root = "vm"

\* C22: export_bundle puts the VM's stored document under the VM's name into
\* the archive; importing that archive into a store without a VM of that
\* name makes a VM object of that name whose stored document and
\* configuration are the archived document, and a reload of the store
\* rewrites no document.
C22_ExportImportKeepsDocument ==
  [][/\ \A o \in Objs, include_iso \in BOOLEAN :
          (ret' = "exported" /\ export_bundle(o, include_iso)) =>
             /\ bundle'.members[1].root = objName[o]
             /\ bundle'.members[1].body = stored[objName[o]]
     /\ (bundle.made /\ ret' = "imported" /\ import_bundle(bundle.members)) =>
          LET m == bundle.members
          IN /\ nobj' = nobj + 1
             /\ objName'[nobj'] = m[1].root
             /\ stored'[m[1].root] = m[1].body
             /\ config'[nobj'] = m[1].body
     /\ load_vms => stored' = stored]_vars

\* C22 witness: the archive of "vm", exported with a disk, has been imported
\* after the VM was deleted, and the stored document is the archived one
C22_Witness ==
  /\ ret = "imported"
  /\ DOMAIN vms = {}
  /\ bundle.made
  /\ Len(bundle.members) >= 2
  /\ bundle.members[1].root = "vm"
  /\ objName[nobj] = "vm"
  /\ stored["vm"] = bundle.members[1].body
  /\ \E f \in files : f.path[1] = "vm"

\* the names of the members of kind k in the archive m, in order
MemberNames(m, k) ==
  LET ms == SelectSeq(m, LAMBDA e : e.kind = k)
  IN [i \in 1..Len(ms) |-> ms[i].name]

\* the file names of the DiskSpecs d, in order
SpecNames(d) == [i \in 1..Len(d) |-> Tail(d[i].path)]

\* the archive m holds the stored document of o first, every member under
\* the name of o, and nothing but the configuration, disks and install medium
WellFormed(o, m) ==
  /\ m[1] = ConfigMember(objName[o], stored[objName[o]])
  /\ \A i \in DOMAIN m : m[i].root = objName[o]
  /\ Len(MemberNames(m, "config")) = 1
  /\ Len(m) = 1 + Len(MemberNames(m, "disks")) + Len(MemberNames(m, "iso"))

\* C23 as claimed: the archive export_bundle writes holds config.json, one
\* disks member for every DiskSpec of the configuration, and an iso member
\* exactly when an install medium is configured and include_iso is true.
C23_ArchiveAsClaimed ==
  [][\A o \in Objs, include_iso \in BOOLEAN :
       (ret' = "exported" /\ export_bundle(o, include_iso)) =>
          LET m == bundle'.members
          IN /\ WellFormed(o, m)
             /\ MemberNames(m, "disks") = SpecNames(config[o].disks)
             /\ MemberNames(m, "iso") =
                  IF include_iso /\ config[o].iso_path # NoIso
                  THEN <<(<<config[o].iso_path>>)>> ELSE <<>>]_vars

\* C23 amended: the archive holds config.json, one disks member for every
\* DiskSpec of the configuration whose file exists when the export runs, and
\* an iso member exactly when an install medium is configured, include_iso
\* is true and the medium's file exists; with include_iso false it holds no
\* iso member.
C23_ArchiveOfExistingFiles ==
  [][\A o \in Objs, include_iso \in BOOLEAN :
       (ret' = "exported" /\ export_bundle(o, include_iso)) =>
          LET m == bundle'.members
          IN /\ WellFormed(o, m)
             /\ MemberNames(m, "disks") =
                  SpecNames(SelectSeq(config[o].disks, LAMBDA d : Exists(d.path)))
             /\ MemberNames(m, "iso") =
                  IF include_iso /\ config[o].iso_path # NoIso /\ isofile
                  THEN <<(<<config[o].iso_path>>)>> ELSE <<>>
             /\ ~include_iso => MemberNames(m, "iso") = <<>>]_vars

\* C23 witness: a VM with a disk and an install medium that is there has
\* been exported without the medium: config.json and the disk, no iso
C23_Witness ==
  /\ ret = "exported"
  /\ isofile
  /\ Len(bundle.members) = 2
  /\ bundle.members[2].kind = "disks"
  /\ \A o \in 1..nobj : objName[o] = bundle.members[1].root =>
        (config[o].iso_path # NoIso /\ Len(config[o].disks) = 1)

\* every key of the document old is in new with the value it had, and new
\* has no other key than those and "disks"
Keeps(old, new) ==
  /\ \A k \in DOMAIN old : k \in DOMAIN new /\ new[k] = old[k]
  /\ DOMAIN new \subseteq DOMAIN old \cup {"disks"}

\* object o was made in this step by loading the document old: its
\* configuration keeps old, has a disks list, and is what the store holds;
\* the stored document is rewritten only when old had no disks list
LoadedFrom(o, old) ==
  /\ Keeps(old, config'[o])
  /\ "disks" \in DOMAIN config'[o]
  /\ stored'[objName'[o]] = config'[o]
  /\ "disks" \in DOMAIN old => stored'[objName'[o]] = old
  /\ "disks" \notin DOMAIN old => config'[o].disks = <<>>

\* C24: a VM object made by loading an existing document (by import_bundle or
\* by a reload of the store) holds every key and value of the document,
\* unknown keys and the creation stamp included, plus a disks list that is
\* added and saved when the document had none; saving an object whose
\* configuration has not changed since leaves the stored document as it is.
C24_LoadSaveKeepsDocument ==
  [][/\ \A m \in Bundles : (ret' = "imported" /\ import_bundle(m)) =>
          LoadedFrom(nobj', m[1].body)
     /\ (nobj' > nobj /\ ret' # "imported") =>
          \A o \in (nobj + 1)..nobj' : LoadedFrom(o, stored[objName'[o]])
     /\ \A o \in Objs :
          (ret' = "saved" /\ save_config_call(o) /\ config[o] = stored[objName[o]]) =>
             stored' = stored]_vars

\* C24 witness: a document with an unknown key and without a disks list was
\* imported and its VM saved: the store holds the key, the earlier creation
\* stamp and the added list
C24_Witness ==
  /\ ret = "saved"
  /\ Dirs = {"web01"}
  /\ "note" \in DOMAIN stored["web01"]
  /\ stored["web01"].note = ForeignDoc.note
  /\ stored["web01"].created = Earlier
  /\ stored["web01"].disks = <<>>

\* the stored document of the VM of object o is its configuration after the
\* step
SavedAfter(o) == stored'[objName'[o]] = config'[o]

\* C27: when the first load of a new VM, create_disk, ensure_primary_disk or
\* build_qemu_cmd (which allocates the control port and the VNC port) has
\* returned with the configuration of its VM object changed, the stored
\* document of that VM equals the object's configuration.
C27_ChangesAreSaved ==
  [][/\ \A n \in NewNames : (nobj' > nobj /\ create(n)) => SavedAfter(nobj')
     /\ \A o \in Objs :
          (ret' \in {"ok", "cmd"} /\ config'[o] # config[o] /\
           \/ \E name \in DiskNames, gib \in Gibs, fmt \in Formats :
                 create_disk_call(o, name, gib, fmt)
           \/ ensure_primary_disk_call(o)
           \/ build(o, NoEmbed)) => SavedAfter(o)]_vars

\* C27 witness: a build has made the primary disk and allocated the control
\* port and the VNC port of a VM, and the store holds all three
C27_Witness ==
  /\ ret = "cmd"
  /\ config[1].disks # <<>>
  /\ config[1].qmp_port # NoPort
  /\ config[1].vnc_port # NoPort
  /\ stored["vm"] = config[1]

====
